---- MODULE Spec2Model ----
(***************************************************************************)
(* The media caching subsystem of dino: the proxy generation pipeline and   *)
(* the frame cache (src/src/frame_cache.rs), which share no state.         *)
(* Proxy generation pipeline (src/src/proxy_generator.rs): the             *)
(* caller threads of ProxyGenerator, its single worker thread, the ffmpeg  *)
(* subprocess of the job in flight and the detached progress-reader        *)
(* threads, over the shared queue, registry and proxy cache directory.     *)
(* Every action is one critical section (one lock acquisition) or one      *)
(* system call of the code.                                                *)
(*                                                                         *)
(* Encodings: Option<T> is a sequence of length 0 (None) or 1 (Some);      *)
(* f32 seconds are integers; generation_progress is in hundredths          *)
(* (0.1 -> 10, 0.99 -> 99, 1.0 -> 100); frame_rate is in hundredths of a   *)
(* frame per second; Instant is an integer number of half hours.           *)
(***************************************************************************)
EXTENDS Integers, Sequences, FiniteSets, TLC

\* ------------------------------------------------------------------ bounds
MaxTime == 1            \* half hours the clock advances
MaxSweepTime == 4       \* the same, where cleanup_old_proxies is studied
PipeCap == 1            \* stderr lines buffered in the pipe of one subprocess
MaxFileSize == 1        \* bytes of an output file

\* ------------------------------------------------------------------ inputs
Callers == {"c1", "c2"}
Videos == {"a.mp4", "b.mp4"}
OneVideo == {"a.mp4"}
Priorities == {1, 2}
OnePriority == {1}
MaxAges == {0, 1}

DefaultSettings ==
  [resolution |-> <<480, 270>>, frame_rate |-> 3000, quality |-> "Preview"]

SettingsSet == {DefaultSettings}

\* The two settings that differ in nothing but the quality tier.
QualitySettings ==
  { [DefaultSettings EXCEPT !.quality = q] : q \in {"Preview", "High"} }

\* The two settings that differ in nothing but the frame rate, 29.97 and 30.
RateSettings ==
  { [DefaultSettings EXCEPT !.frame_rate = r] : r \in {2997, 3000} }

AllSettings == SettingsSet \cup QualitySettings \cup RateSettings

NoPath == <<>>

\* A stderr line after the contains() tests of the reader: the marker found on
\* it and the text extract_time_string cuts out, split at ':'.
Lines ==
  { [marker |-> "Duration:", text |-> <<0, 0, 2>>],
    [marker |-> "time=", text |-> <<0, 0, 1>>],
    [marker |-> "time=", text |-> <<0, 0, 3>>] }

\* The progress lines ffmpeg prints while it has no timestamp yet: "time=N/A"
\* and a negative time, whose sign is on the hours ("time=-01:00:00.00").
StartupLines ==
  { [marker |-> "time=", text |-> <<"N/A">>],
    [marker |-> "time=", text |-> <<-1, 0, 0>>] }

VARIABLES
  generation_queue,   \* Vec<ProxyRequest>
  proxy_registry,     \* HashMap<String, ProxyInfo>: a function on the ids present
  worker_running,     \* the stop flag
  files,              \* the proxy cache directory: path -> length in bytes
  now,                \* Instant::now()
  cpc, creq, cret,    \* per caller: position, arguments and last return value
  wpc, wreq, wpath, wresult, wsize,   \* the worker and its locals
  ffmpeg,             \* the subprocess of the job in flight
  readers,            \* the progress-reader threads and their pipes, in spawn order
  track,              \* whether the history variables are kept
  enqueued,           \* history: pushes per proxy id
  failed,             \* history: the ids whose record was given the failed
                      \* status update and has not been replaced since
  streak,             \* history: per caller, the id of its last completed
                      \* request_proxy calls and how many in a row (no cleanup since)
  cache,              \* FrameCache.cache: HashMap<String, CachedFrame>
  cache_now,          \* Instant::now() of the thread that owns the FrameCache
  cache_calls,        \* history: the FrameCache calls made, with what they returned
  owner,              \* per Mutex: the thread that holds its guard, or "none"
  lstep               \* per thread: the lock and unlock calls left of its function

vars ==
  << generation_queue, proxy_registry, worker_running, files, now,
     cpc, creq, cret, wpc, wreq, wpath, wresult, wsize,
     ffmpeg, readers, track, enqueued, failed, streak,
     cache, cache_now, cache_calls, owner, lstep >>

proxy_vars ==
  << generation_queue, proxy_registry, worker_running, files, now,
     cpc, creq, cret, wpc, wreq, wpath, wresult, wsize,
     ffmpeg, readers, track, enqueued, failed, streak >>

cache_vars == << cache, cache_now, cache_calls >>

lock_vars == << owner, lstep >>

\* --------------------------------------------------------------- functions
as_u32(frame_rate) == frame_rate \div 100

\* generate_proxy_id hashing the quality tier as well.
generate_proxy_id_with_quality(video_path, settings) ==
  << video_path, settings.resolution, as_u32(settings.frame_rate),
     settings.quality >>

\* DefaultHasher over (path, resolution, frame_rate as u32), taken as injective.
generate_proxy_id(video_path, settings) ==
  << video_path, settings.resolution, as_u32(settings.frame_rate) >>

generate_proxy_path(video_path, settings) ==
  << "proxy", generate_proxy_id(video_path, settings), as_u32(settings.frame_rate) >>

ProxyIds == { generate_proxy_id(v, s) : v \in Videos, s \in AllSettings }

request_id(req) == generate_proxy_id(req.video_path, req.proxy_settings)

ProxyRequest(video_path, settings, priority) ==
  [video_path |-> video_path, proxy_settings |-> settings, priority |-> priority]

PendingInfo(video_path, settings, created) ==
  [ proxy_path |-> generate_proxy_path(video_path, settings),
    original_path |-> video_path,
    settings |-> settings,
    generation_progress |-> 0,
    is_ready |-> FALSE,
    file_size |-> 0,
    created_at |-> created ]

\* insert_stable leaving the new element where push put it, at the end.
insert_last(sorted, x) == Append(sorted, x)

\* queue.sort_by(|a, b| b.priority.cmp(&a.priority)): a stable sort, descending.
insert_stable(sorted, x) ==
  LET keep == { i \in 0..Len(sorted) :
                  \A j \in 1..i : sorted[j].priority >= x.priority }
      k == CHOOSE i \in keep : \A i2 \in keep : i2 <= i
  IN SubSeq(sorted, 1, k) \o <<x>> \o SubSeq(sorted, k + 1, Len(sorted))

RECURSIVE sort_by_priority_desc(_)
sort_by_priority_desc(q) ==
  IF q = <<>> THEN <<>>
  ELSE insert_stable(sort_by_priority_desc(SubSeq(q, 1, Len(q) - 1)), q[Len(q)])

\* Vec::pop: the last element.
vec_pop_index(q) == Len(q)

\* map_insert keeping the value of a key that is present.
map_insert_if_absent(m, k, v) ==
  [x \in DOMAIN m \cup {k} |-> IF x \in DOMAIN m THEN m[x] ELSE v]

map_insert(m, k, v) == [x \in DOMAIN m \cup {k} |-> IF x = k THEN v ELSE m[x]]

map_remove(m, ks) == [x \in DOMAIN m \ ks |-> m[x]]

EmptyMap == [x \in {} |-> x]

\* parse_time_string: "HH:MM:SS.ss" to seconds. parts[i].parse::<f32>(): the
\* parts of the model's lines are numbers, which parse as themselves, sign
\* included; text that is no number occurs only in a line that has not three
\* parts.
part_value(p) == p

parse_time_string(text) ==
  IF Len(text) # 3 THEN 0
  ELSE part_value(text[1]) * 3600 + part_value(text[2]) * 60 + part_value(text[3])

Min(a, b) == IF a <= b THEN a ELSE b

\* reader_progress without its cap.
reader_progress_uncapped(time_secs, duration_secs) ==
  (time_secs * 100) \div duration_secs

\* (time_secs / duration_secs).min(0.99)
reader_progress(time_secs, duration_secs) ==
  Min((time_secs * 100) \div duration_secs, 99)

\* measured_file_size without the test of the exit status.
measured_file_size_any_exit(result, path) ==
  IF path \in DOMAIN files THEN files[path] ELSE 0

\* file_size of generate_proxy_file: result && exists, then metadata().len()
measured_file_size(result, path) ==
  IF result /\ path \in DOMAIN files THEN files[path] ELSE 0

\* terminal_info marking the record ready whatever the size.
terminal_info_always_ready(info, file_size) ==
  [info EXCEPT !.is_ready = TRUE,
               !.generation_progress = 100,
               !.file_size = file_size]

\* the status update of generate_proxy_file
terminal_info(info, file_size) ==
  [info EXCEPT !.is_ready = file_size > 0,
               !.generation_progress = IF file_size > 0 THEN 100 ELSE 0,
               !.file_size = file_size]

\* proxy_path_if_exists without the test of the file.
proxy_path_unverified(proxy_path) == <<proxy_path>>

\* the value get_proxy_path returns once is_proxy_ready has answered true
proxy_path_if_exists(proxy_path) ==
  IF proxy_path \in DOMAIN files THEN <<proxy_path>> ELSE <<>>

\* registry_contains_key answering false for a record that is not ready and has
\* no progress.
registry_contains_unfailed(registry, id) ==
  /\ id \in DOMAIN registry
  /\ (registry[id].is_ready \/ registry[id].generation_progress > 0)

\* registry.contains_key(&proxy_id)
registry_contains_key(registry, id) == id \in DOMAIN registry

\* the last get_proxy_path return of a caller: the id asked for and the Option
NoReturn == [returned |-> FALSE, id |-> <<>>, value |-> <<>>]

Returned(id, v) == [returned |-> TRUE, id |-> id, value |-> v]

\* The history of a caller: the id of its last completed request_proxy calls
\* and how many in a row; what the last of them found when it returned early
\* (the record, and the jobs of the id queued or in flight); the arguments,
\* outcome of remove_file and time of the cleanup_old_proxies it last made,
\* with the creation time of each record it removed and whether the record's
\* file was on disk.
NoStreak == [id |-> <<>>, n |-> 0, found |-> <<>>, swept |-> <<>>]

Requested(id, n, found) == [id |-> id, n |-> n, found |-> found, swept |-> <<>>]

Swept(max_age_hours, remove_ok, at, removed) ==
  [NoStreak EXCEPT !.swept =
     <<[max_age_hours |-> max_age_hours, remove_ok |-> remove_ok, at |-> at,
        removed |-> removed]>>]

\* Duration::from_secs(max_age_hours * 3600), in half hours
from_hours(hours) == 2 * hours

\* is_older accepting a record created at the cutoff.
is_older_or_equal(created_at, cutoff_time) == created_at <= cutoff_time

\* info.created_at < cutoff_time
is_older(created_at, cutoff_time) == created_at < cutoff_time

\* The three Mutex fields of ProxyGenerator, and the threads that lock them:
\* two callers, the worker and a progress reader.
Locks == {"generation_queue", "proxy_registry", "worker_running"}

LockThreads == {"c1", "c2", "worker", "reader"}

\* -------------------------------------------------------------------- Init
Init ==
  /\ generation_queue = <<>>
  /\ proxy_registry = EmptyMap
  /\ worker_running = TRUE
  /\ files = EmptyMap
  /\ now = 0
  /\ cpc = [c \in Callers |-> "idle"]
  /\ creq = [c \in Callers |-> <<>>]
  /\ cret = [c \in Callers |-> NoReturn]
  /\ wpc = "loop"
  /\ wreq = <<>>
  /\ wpath = NoPath
  /\ wresult = FALSE
  /\ wsize = 0
  /\ ffmpeg = "none"
  /\ readers = <<>>
  /\ track = FALSE
  /\ enqueued = [id \in ProxyIds |-> 0]
  /\ failed = {}
  /\ streak = [c \in Callers |-> NoStreak]
  /\ cache = EmptyMap
  /\ cache_now = 0
  /\ cache_calls = <<>>
  /\ owner = [l \in Locks |-> "none"]
  /\ lstep = [t \in LockThreads |-> <<>>]

worker_vars == << wpc, wreq, wpath, wresult, wsize >>
caller_vars == << cpc, creq, cret >>
history_vars == << track, enqueued, failed, streak >>

streak_after(c, value) == IF track THEN [streak EXCEPT ![c] = value] ELSE streak

\* The jobs of an id that are in the queue or held by the worker.
jobs_of(id) ==
  Cardinality({ i \in 1..Len(generation_queue) : request_id(generation_queue[i]) = id })
    + (IF wreq # <<>> /\ request_id(wreq[1]) = id THEN 1 ELSE 0)

\* ------------------------------------------------------- caller: request
\* request_proxy, the registry lookup: return early when the id is present.
request_proxy_lookup(c, video_path, settings, priority) ==
  LET id == generate_proxy_id(video_path, settings) IN
  /\ cpc[c] = "idle"
  /\ cret' = [cret EXCEPT ![c] = NoReturn]
  /\ IF registry_contains_key(proxy_registry, id)
     THEN /\ streak' = streak_after(c,
                 Requested(id,
                           IF streak[c].id = id THEN Min(streak[c].n + 1, 2) ELSE 1,
                           <<[info |-> proxy_registry[id],
                              jobs |-> jobs_of(id),
                              settings |-> settings]>>))
          /\ UNCHANGED << cpc, creq >>
     ELSE /\ cpc' = [cpc EXCEPT ![c] = "push"]
          /\ creq' = [creq EXCEPT ![c] = <<ProxyRequest(video_path, settings, priority)>>]
          /\ streak' = streak_after(c, NoStreak)
  /\ UNCHANGED << generation_queue, proxy_registry, worker_running, files, now,
                  worker_vars, ffmpeg, readers, track, enqueued, failed, cache_vars, lock_vars >>

\* request_proxy, the queue critical section: push, then sort.
request_proxy_push(c) ==
  /\ cpc[c] = "push"
  /\ generation_queue' = sort_by_priority_desc(Append(generation_queue, creq[c][1]))
  /\ enqueued' = IF track THEN [enqueued EXCEPT ![request_id(creq[c][1])] = @ + 1]
                 ELSE enqueued
  /\ cpc' = [cpc EXCEPT ![c] = "insert"]
  /\ UNCHANGED << proxy_registry, worker_running, files, now, creq, cret,
                  worker_vars, ffmpeg, readers, track, failed, streak, cache_vars, lock_vars >>

\* request_proxy, the second registry critical section: register as pending.
request_proxy_insert(c) ==
  LET req == creq[c][1]
      id == request_id(req) IN
  /\ cpc[c] = "insert"
  /\ proxy_registry' = map_insert(proxy_registry, id,
                           PendingInfo(req.video_path, req.proxy_settings, now))
  /\ cpc' = [cpc EXCEPT ![c] = "idle"]
  /\ creq' = [creq EXCEPT ![c] = <<>>]
  /\ streak' = streak_after(c, Requested(id, 1, <<>>))
  /\ failed' = failed \ {id}
  /\ UNCHANGED << generation_queue, worker_running, files, now, cret,
                  worker_vars, ffmpeg, readers, track, enqueued, cache_vars,
                  lock_vars >>

\* --------------------------------------------------------- caller: queries
get_proxy_info(video_path, settings) ==
  LET id == generate_proxy_id(video_path, settings) IN
  IF id \in DOMAIN proxy_registry THEN <<proxy_registry[id]>> ELSE <<>>

is_proxy_ready(video_path, settings) ==
  LET info == get_proxy_info(video_path, settings) IN
  IF info = <<>> THEN FALSE ELSE info[1].is_ready

\* get_proxy_path, the registry read of is_proxy_ready.
get_proxy_path_ready(c, video_path, settings) ==
  /\ cpc[c] = "idle"
  /\ streak' = streak_after(c, NoStreak)
  /\ IF is_proxy_ready(video_path, settings)
     THEN /\ cpc' = [cpc EXCEPT ![c] = "exists"]
          /\ creq' = [creq EXCEPT ![c] = <<ProxyRequest(video_path, settings, 0)>>]
          /\ cret' = [cret EXCEPT ![c] = NoReturn]
     ELSE /\ cret' = [cret EXCEPT ![c] =
                        Returned(generate_proxy_id(video_path, settings), <<>>)]
          /\ UNCHANGED << cpc, creq >>
  /\ UNCHANGED << generation_queue, proxy_registry, worker_running, files, now,
                  worker_vars, ffmpeg, readers, track, enqueued, failed, cache_vars, lock_vars >>

\* get_proxy_path, the Path::exists test on the regenerated path.
get_proxy_path_exists(c) ==
  LET req == creq[c][1] IN
  /\ cpc[c] = "exists"
  /\ cret' = [cret EXCEPT ![c] =
        Returned(request_id(req),
                 proxy_path_if_exists(generate_proxy_path(req.video_path, req.proxy_settings)))]
  /\ cpc' = [cpc EXCEPT ![c] = "idle"]
  /\ creq' = [creq EXCEPT ![c] = <<>>]
  /\ UNCHANGED << generation_queue, proxy_registry, worker_running, files, now,
                  worker_vars, ffmpeg, readers, history_vars, cache_vars, lock_vars >>

\* registry.values().map(|info| info.file_size).sum()
RECURSIVE sum_file_size(_, _)
sum_file_size(registry, ids) ==
  IF ids = {} THEN 0
  ELSE LET id == CHOOSE id \in ids : TRUE
       IN registry[id].file_size + sum_file_size(registry, ids \ {id})

\* get_cache_stats: (total_proxies, ready_proxies, total_size)
get_cache_stats(registry) ==
  << Cardinality(DOMAIN registry),
     Cardinality({ id \in DOMAIN registry : registry[id].is_ready }),
     sum_file_size(registry, DOMAIN registry) >>

\* --------------------------------------------------------- caller: cleanup
\* cleanup_old_proxies: one registry critical section; remove_file, whose
\* error is dropped, then remove.
cleanup_old_proxies(c, max_age_hours, remove_ok) ==
  LET cutoff_time == now - from_hours(max_age_hours)
      to_remove == { id \in DOMAIN proxy_registry :
                       is_older(proxy_registry[id].created_at, cutoff_time) }
      gone == IF remove_ok
              THEN { proxy_registry[id].proxy_path : id \in to_remove }
              ELSE {} IN
  /\ cpc[c] = "idle"
  /\ files' = map_remove(files, gone)
  /\ proxy_registry' = map_remove(proxy_registry, to_remove)
  /\ streak' = IF track
               THEN [x \in Callers |->
                       IF x = c
                       THEN Swept(max_age_hours, remove_ok, now,
                                  { [created_at |-> proxy_registry[id].created_at,
                                     had_file |-> proxy_registry[id].proxy_path
                                                    \in DOMAIN files] :
                                    id \in to_remove })
                       ELSE NoStreak]
               ELSE streak
  /\ cret' = [cret EXCEPT ![c] = NoReturn]
  /\ failed' = failed \ to_remove
  /\ UNCHANGED << generation_queue, worker_running, now, cpc, creq,
                  worker_vars, ffmpeg, readers, track, enqueued, cache_vars,
                  lock_vars >>

\* ------------------------------------------------------------- environment
\* The monotonic clock behind Instant::now(), up to a limit.
tick_until(limit) ==
  /\ now < limit
  /\ now' = now + 1
  /\ UNCHANGED << generation_queue, proxy_registry, worker_running, files,
                  caller_vars, worker_vars, ffmpeg, readers, history_vars,
                  cache_vars, lock_vars >>

tick == tick_until(MaxTime)

\* A proxy file removed from the cache directory by something else.
external_delete(path) ==
  /\ path \in DOMAIN files
  /\ files' = map_remove(files, {path})
  /\ UNCHANGED << generation_queue, proxy_registry, worker_running, now,
                  caller_vars, worker_vars, ffmpeg, readers, history_vars,
                  cache_vars, lock_vars >>

\* ------------------------------------------------------------------ worker
NewReader(id) ==
  [proxy_id |-> id, duration_secs |-> 0, buffered |-> 0, eof |-> FALSE,
   terminal |-> FALSE, done |-> FALSE]

\* A reader thread that has returned.
DoneReader ==
  [proxy_id |-> <<>>, duration_secs |-> 0, buffered |-> 0, eof |-> TRUE,
   terminal |-> TRUE, done |-> TRUE]

\* keep_running not seeing the flag cleared.
keep_running_always(is_running) == TRUE

\* the value of the while condition: *is_running
keep_running(is_running) == is_running

\* start_worker_thread, the loop condition: read the stop flag.
worker_check_running ==
  /\ wpc = "loop"
  /\ wpc' = IF keep_running(worker_running) THEN "pop" ELSE "exited"
  /\ UNCHANGED << generation_queue, proxy_registry, worker_running, files, now,
                  caller_vars, wreq, wpath, wresult, wsize, ffmpeg, readers,
                  history_vars, cache_vars, lock_vars >>

\* start_worker_thread, the queue critical section: q.pop(), or sleep and loop.
worker_pop ==
  /\ wpc = "pop"
  /\ IF generation_queue = <<>>
     THEN /\ wpc' = "loop"
          /\ UNCHANGED << generation_queue, wreq >>
     ELSE /\ wreq' = << generation_queue[vec_pop_index(generation_queue)] >>
          /\ generation_queue' =
               [i \in (1..Len(generation_queue)) \ {vec_pop_index(generation_queue)} |->
                  generation_queue[i]]
          /\ wpc' = "probe"
  /\ UNCHANGED << proxy_registry, worker_running, files, now, caller_vars,
                  wpath, wresult, wsize, ffmpeg, readers, history_vars,
                  cache_vars, lock_vars >>

\* after_probe with a failed probe ending the worker thread.
after_probe_fatal(available) == IF available THEN "resolve" ELSE "exited"

\* Where the worker goes after is_ffmpeg_available: on, or back to its loop
\* (generate_proxy_file returns false, and the loop ignores the value).
after_probe(available) == IF available THEN "resolve" ELSE "loop"

\* generate_proxy_file, is_ffmpeg_available: abandon the job when the probe fails.
generate_proxy_file_probe(available) ==
  /\ wpc = "probe"
  /\ wpc' = after_probe(available)
  /\ wreq' = IF available THEN wreq ELSE <<>>
  /\ UNCHANGED << generation_queue, proxy_registry, worker_running, files, now,
                  caller_vars, wpath, wresult, wsize, ffmpeg, readers,
                  history_vars, cache_vars, lock_vars >>

\* generate_proxy_file, the registry read of the proxy path (empty when absent).
generate_proxy_file_resolve ==
  LET id == request_id(wreq[1]) IN
  /\ wpc = "resolve"
  /\ wpath' = IF id \in DOMAIN proxy_registry
               THEN proxy_registry[id].proxy_path ELSE NoPath
  /\ wpc' = "start"
  /\ UNCHANGED << generation_queue, proxy_registry, worker_running, files, now,
                  caller_vars, wreq, wresult, wsize, ffmpeg, readers,
                  history_vars, cache_vars, lock_vars >>

\* generate_proxy_file, "update progress to indicate we're starting".
generate_proxy_file_start ==
  LET id == request_id(wreq[1]) IN
  /\ wpc = "start"
  /\ proxy_registry' =
       IF id \in DOMAIN proxy_registry
       THEN [proxy_registry EXCEPT ![id].generation_progress = 10]
       ELSE proxy_registry
  /\ wpc' = "spawn"
  /\ UNCHANGED << generation_queue, worker_running, files, now, caller_vars,
                  wreq, wpath, wresult, wsize, ffmpeg, readers, history_vars,
                  cache_vars, lock_vars >>

\* generate_proxy_with_ffmpeg, cmd.spawn() and the spawn of the progress reader.
ffmpeg_spawn(ok) ==
  /\ wpc = "spawn"
  /\ IF ok
     THEN /\ ffmpeg' = "running"
          /\ readers' = Append(readers, NewReader(request_id(wreq[1])))
          /\ wpc' = "wait"
          /\ UNCHANGED wresult
     ELSE /\ wresult' = FALSE
          /\ wpc' = "size"
          /\ UNCHANGED << ffmpeg, readers >>
  /\ UNCHANGED << generation_queue, proxy_registry, worker_running, files, now,
                  caller_vars, wreq, wpath, wsize, history_vars, cache_vars, lock_vars >>

\* wait_returns without blocking.
wait_returns_at_once(process) == TRUE

\* process.wait() blocks until the subprocess has exited.
wait_returns(process) == process \in {"success", "failure"}

\* generate_proxy_with_ffmpeg, process.wait(): the exit status.
ffmpeg_wait ==
  /\ wpc = "wait"
  /\ wait_returns(ffmpeg)
  /\ wresult' = (ffmpeg = "success")
  /\ wpc' = "size"
  /\ UNCHANGED << generation_queue, proxy_registry, worker_running, files, now,
                  caller_vars, wreq, wpath, wsize, ffmpeg, readers, history_vars,
                  cache_vars, lock_vars >>

\* generate_proxy_file, the file size read from the disk.
generate_proxy_file_size ==
  /\ wpc = "size"
  /\ wsize' = measured_file_size(wresult, wpath)
  /\ wpc' = "update"
  /\ UNCHANGED << generation_queue, proxy_registry, worker_running, files, now,
                  caller_vars, wreq, wpath, wresult, ffmpeg, readers,
                  history_vars, cache_vars, lock_vars >>

\* generate_proxy_file, "update status in registry"; then back to the loop.
generate_proxy_file_update ==
  LET id == request_id(wreq[1]) IN
  /\ wpc = "update"
  /\ proxy_registry' =
       IF id \in DOMAIN proxy_registry
       THEN [proxy_registry EXCEPT ![id] = terminal_info(@, wsize)]
       ELSE proxy_registry
  /\ readers' =
       IF ffmpeg = "none" THEN readers
       ELSE [readers EXCEPT ![Len(readers)].terminal = TRUE]
  /\ ffmpeg' = "none"
  /\ wpc' = "loop"
  /\ wreq' = <<>>
  /\ wpath' = NoPath
  /\ wresult' = FALSE
  /\ wsize' = 0
  /\ failed' = IF track /\ id \in DOMAIN proxy_registry /\ wsize = 0
               THEN failed \cup {id} ELSE failed \ {id}
  /\ UNCHANGED << generation_queue, worker_running, files, now, caller_vars,
                  track, enqueued, streak, cache_vars, lock_vars >>

\* ------------------------------------------------------------ subprocess
\* ffmpeg -y ... output_path: the output file is created, truncated or extended.
ffmpeg_write(size) ==
  /\ ffmpeg = "running"
  /\ wpath # NoPath
  /\ files' = map_insert(files, wpath, size)
  /\ UNCHANGED << generation_queue, proxy_registry, worker_running, now,
                  caller_vars, worker_vars, ffmpeg, readers, history_vars,
                  cache_vars, lock_vars >>

\* A line written to the piped stderr. Nothing but the reader looks at the
\* text of a buffered line, so the pipe holds the number of lines and the text
\* is drawn when the line is read.
ffmpeg_stderr ==
  /\ ffmpeg = "running"
  /\ readers[Len(readers)].buffered < PipeCap
  /\ readers' = [readers EXCEPT ![Len(readers)].buffered = @ + 1]
  /\ UNCHANGED << generation_queue, proxy_registry, worker_running, files, now,
                  caller_vars, worker_vars, ffmpeg, history_vars, cache_vars, lock_vars >>

\* The subprocess exits; its end of the pipe closes.
ffmpeg_exit(ok) ==
  /\ ffmpeg = "running"
  /\ ffmpeg' = IF ok THEN "success" ELSE "failure"
  /\ readers' = [readers EXCEPT ![Len(readers)].eof = TRUE]
  /\ UNCHANGED << generation_queue, proxy_registry, worker_running, files, now,
                  caller_vars, worker_vars, history_vars, cache_vars, lock_vars >>

\* ------------------------------------------------------- progress reader
\* progress_info marking the record ready once the cap is reached.
progress_info_ready(info, progress) ==
  [info EXCEPT !.generation_progress = progress, !.is_ready = progress >= 99]

\* info.generation_progress = progress
progress_info(info, progress) == [info EXCEPT !.generation_progress = progress]

\* One iteration of `for line in reader.lines()`.
reader_line(i, line) ==
  LET r == readers[i]
      duration_secs ==
        IF line.marker = "Duration:" /\ r.duration_secs = 0
        THEN parse_time_string(line.text) ELSE r.duration_secs
      writes == line.marker = "time=" /\ duration_secs > 0
                  /\ r.proxy_id \in DOMAIN proxy_registry IN
  /\ i \in 1..Len(readers)
  /\ r.buffered > 0
  /\ readers' = [readers EXCEPT ![i].buffered = @ - 1,
                                ![i].duration_secs = duration_secs]
  /\ proxy_registry' =
       IF writes
       THEN [proxy_registry EXCEPT ![r.proxy_id] =
               progress_info(@, reader_progress(parse_time_string(line.text),
                                                duration_secs))]
       ELSE proxy_registry
  /\ UNCHANGED << generation_queue, worker_running, files, now, caller_vars,
                  worker_vars, ffmpeg, history_vars, cache_vars, lock_vars >>

\* reader.lines() ends at end of file: the thread returns.
reader_eof(i) ==
  /\ i \in 1..Len(readers)
  /\ readers[i].buffered = 0
  /\ readers[i].eof
  /\ ~readers[i].done
  /\ readers' = [readers EXCEPT ![i] = DoneReader]
  /\ UNCHANGED << generation_queue, proxy_registry, worker_running, files, now,
                  caller_vars, worker_vars, ffmpeg, history_vars, cache_vars, lock_vars >>

\* ---------------------------------------------------------------- teardown
\* Drop for ProxyGenerator: signal the worker to stop.
drop_signal(c) ==
  /\ \A x \in Callers : cpc[x] = "idle"
  /\ worker_running' = FALSE
  /\ cpc' = [cpc EXCEPT ![c] = "join"]
  /\ streak' = [x \in Callers |-> NoStreak]
  /\ cret' = [x \in Callers |-> NoReturn]
  /\ UNCHANGED << generation_queue, proxy_registry, files, now, creq,
                  worker_vars, ffmpeg, readers, track, enqueued, failed, cache_vars, lock_vars >>

\* Drop for ProxyGenerator: handle.join() returns once the worker has exited.
drop_join(c) ==
  /\ cpc[c] = "join"
  /\ wpc = "exited"
  /\ cpc' = [cpc EXCEPT ![c] = "dropped"]
  /\ UNCHANGED << generation_queue, proxy_registry, worker_running, files, now,
                  creq, cret, worker_vars, ffmpeg, readers, history_vars,
                  cache_vars, lock_vars >>

\* ------------------------------------------------------------- frame cache
\* FrameCache (src/src/frame_cache.rs). A String is the sequence of its
\* characters, except that the text of a formatted time is kept as one
\* element; f32 seconds are integers in hundredths of a second, and the times
\* of the model have at most two decimals, so that rounding and distances are
\* exact. The cache is owned by one thread (&mut self): a call is one step.
max_cache_size == 100

\* 0.5 seconds
nearby_limit == 50

MaxCacheOps == 2        \* FrameCache calls made after the cache was set up
\* the largest time of a key, in tenths of a second
MaxKeyTenths == max_cache_size - 1

CachePaths == { <<"v">>, <<"v", "2">>, <<"C", ":", "v">> }

\* the times asked for, and those of them frames are stored at
CacheTimes == { 0 - 4, 4, 40, 50 }

StoreTimes == { 0 - 4, 4 }

Frame(width, height, pixels, timestamp) ==
  [width |-> width, height |-> height, pixels |-> pixels, timestamp |-> timestamp]

Frames == { Frame(1, 1, <<0, 0, 0, 0>>, 0), Frame(1, 1, <<255, 0, 0, 255>>, 4) }

WarmFrame == Frame(1, 1, <<0, 0, 0, 0>>, 0)

CachedFrame(frame, last_accessed) ==
  [frame |-> frame, last_accessed |-> last_accessed, is_loading |-> FALSE]

\* clone returning a new frame of the same size: Frame::new(width, height).
clone_blank(frame) == Frame(frame.width, frame.height, <<0, 0, 0, 0>>, 0)

\* cached_frame.frame.clone()
clone(frame) == frame

Abs(x) == IF x < 0 THEN 0 - x ELSE x

\* |(time * 10.0).round()|: f32::round rounds half-way cases away from zero.
\* The sign of the rounded value is the sign of time, also when it is zero.
round_tenths(time) == (Abs(time) + 5) \div 10

\* format!("{:.1}", x) of x = -tenths/10 or tenths/10; negative zero is "-0.0".
format_1(negative, tenths) ==
  (IF negative THEN "-" ELSE "") \o ToString(tenths \div 10) \o "."
    \o ToString(tenths % 10)

make_cache_key(video_path, time) ==
  video_path \o <<":">> \o << format_1(time < 0, round_tenths(time)) >>

\* str::parse::<f32> on the texts format_1 writes, in hundredths.
TimeTexts == { format_1(negative, tenths) :
                 negative \in BOOLEAN, tenths \in 0..MaxKeyTenths }

ParseTable ==
  [ text \in TimeTexts |->
      LET p == CHOOSE p \in BOOLEAN \X (0..MaxKeyTenths) : format_1(p[1], p[2]) = text
      IN (IF p[1] THEN 0 - 1 ELSE 1) * p[2] * 10 ]

\* No character sequence of CachePaths is the text of a number.
parse_f32(segment) ==
  IF Len(segment) = 1 /\ segment[1] \in TimeTexts
  THEN << ParseTable[segment[1]] >> ELSE <<>>

starts_with(key, prefix) ==
  Len(prefix) <= Len(key) /\ SubSeq(key, 1, Len(prefix)) = prefix

SetMin(S) == CHOOSE x \in S : \A y \in S : x <= y

\* key.split(':').nth(1)
split_nth_1(key) ==
  LET colons == { i \in 1..Len(key) : key[i] = ":" } IN
  IF colons = {} THEN <<>>
  ELSE LET first == SetMin(colons)
           rest == colons \ {first}
           last == IF rest = {} THEN Len(key) ELSE SetMin(rest) - 1
       IN << SubSeq(key, first + 1, last) >>

\* The time find_nearby_frame reads off a key, if any.
key_time(key) ==
  IF split_nth_1(key) = <<>> THEN <<>> ELSE parse_f32(split_nth_1(key)[1])

\* find_nearby_frame: the Options it can return. The HashMap is walked in an
\* arbitrary order and the first entry at the least distance is kept.
find_nearby_frame(entries, video_path, target_time) ==
  LET timed == { << key, key_time(key) >> :
                   key \in { key \in DOMAIN entries :
                               /\ starts_with(key, video_path)
                               /\ ~entries[key].is_loading
                               /\ key_time(key) # <<>> } }
      distance(kt) == Abs(kt[2][1] - target_time)
      best_distance == SetMin({ distance(kt) : kt \in timed })
      best == { kt \in timed : distance(kt) = best_distance }
  IN IF timed = {} THEN { <<>> }
     ELSE { IF best_distance < nearby_limit
            THEN << clone(entries[kt[1]].frame) >> ELSE <<>> :
              kt \in best }

\* sort_key ordering the newest entry first.
sort_key_newest_first(entry) == 0 - entry.last_accessed

\* entries.sort_by_key(|(_, last_accessed)| *last_accessed)
sort_key(entry) == entry.last_accessed

\* The key sets that can be the first n of the sorted entries: the sort is
\* stable over the arbitrary order of the HashMap.
oldest_entries(entries, n) ==
  LET not_after(key) == { other \in DOMAIN entries :
                            sort_key(entries[other]) <= sort_key(entries[key]) }
      before(key) == { other \in DOMAIN entries :
                         sort_key(entries[other]) < sort_key(entries[key]) }
      sure == { key \in DOMAIN entries : Cardinality(not_after(key)) <= n }
      tied == { key \in DOMAIN entries : Cardinality(before(key)) < n } \ sure
  IN { sure \cup some : some \in { t \in SUBSET tied :
                                     Cardinality(t) = Min(n, Cardinality(DOMAIN entries))
                                                        - Cardinality(sure) } }

\* cache_too_large at one entry more.
cache_too_large_by_two(len) == len > max_cache_size + 1

\* self.cache.len() > self.max_cache_size
cache_too_large(len) == len > max_cache_size

\* remove_count taking a quarter.
remove_count_quarter(capacity) == capacity \div 4

\* let remove_count = self.max_cache_size / 5
remove_count(capacity) == capacity \div 5

\* add_frame: the maps it can leave.
add_frame(entries, video_path, time, frame, instant) ==
  LET inserted == map_insert(entries, make_cache_key(video_path, time),
                             CachedFrame(frame, instant))
  IN IF cache_too_large(Cardinality(DOMAIN inserted))
     THEN { map_remove(inserted, gone) :
              gone \in oldest_entries(inserted, remove_count(max_cache_size)) }
     ELSE { inserted }

\* A call and what it returned (frame: the argument of add_frame; result and
\* exact: the Option get_frame returned and whether the key was in the map).
CacheCall(op, video_path, time, frame, result, exact) ==
  [op |-> op, video_path |-> video_path, time |-> time, frame |-> frame,
   result |-> result, exact |-> exact]

\* cached_frame.last_accessed = Instant::now()
get_frame_refreshed(entries, key, instant) ==
  [entries EXCEPT ![key].last_accessed = instant]

\* after_fallback stamping the entries the fallback has looked at.
after_fallback_touched(entries, instant) ==
  [key \in DOMAIN entries |-> [entries[key] EXCEPT !.last_accessed = instant]]

\* The map after find_nearby_frame(&self, ..): as it was.
after_fallback(entries, instant) == entries

get_frame(video_path, time) ==
  LET cache_key == make_cache_key(video_path, time) IN
  /\ Len(cache_calls) < MaxCacheOps
  /\ cache_now' = cache_now + 1
  /\ IF cache_key \in DOMAIN cache
     THEN /\ cache' = get_frame_refreshed(cache, cache_key, cache_now')
          /\ cache_calls' = Append(cache_calls,
               CacheCall("get_frame", video_path, time, <<>>,
                         << clone(cache[cache_key].frame) >>, TRUE))
     ELSE /\ \E result \in find_nearby_frame(cache, video_path, time) :
               cache_calls' = Append(cache_calls,
                 CacheCall("get_frame", video_path, time, <<>>, result, FALSE))
          /\ cache' = after_fallback(cache, cache_now')
  /\ UNCHANGED << proxy_vars, lock_vars >>

add_frame_call(video_path, time, frame) ==
  /\ Len(cache_calls) < MaxCacheOps
  /\ cache_now' = cache_now + 1
  /\ cache' \in add_frame(cache, video_path, time, frame, cache_now')
  /\ cache_calls' = Append(cache_calls,
       CacheCall("add_frame", video_path, time, <<frame>>, <<>>, FALSE))
  /\ UNCHANGED << proxy_vars, lock_vars >>

clear_cache ==
  /\ Len(cache_calls) < MaxCacheOps
  /\ cache_now' = cache_now + 1
  /\ cache' = EmptyMap
  /\ cache_calls' = Append(cache_calls,
       CacheCall("clear_cache", <<>>, 0, <<>>, <<>>, FALSE))
  /\ UNCHANGED << proxy_vars, lock_vars >>

\* The map max_cache_size calls of add_frame leave in a new cache, none of
\* them reaching the size test: add_frame("v", k / 10, WarmFrame) at instant
\* k + 1 - max_cache_size, for k = 0, 1, ... The cache is full at instant 0.
warm_cache ==
  [ key \in { make_cache_key(<<"v">>, 10 * k) : k \in 0..(max_cache_size - 1) } |->
      CachedFrame(WarmFrame, (key_time(key)[1] \div 10) + 1 - max_cache_size) ]

warm_up ==
  /\ cache_calls = <<>>
  /\ cache = EmptyMap
  /\ cache' = warm_cache
  /\ UNCHANGED << cache_now, cache_calls, proxy_vars, lock_vars >>

\* ---------------------------------------------------------- specifications
worker_step ==
  \/ worker_check_running
  \/ worker_pop
  \/ \E available \in BOOLEAN : generate_proxy_file_probe(available)
  \/ generate_proxy_file_resolve
  \/ generate_proxy_file_start
  \/ \E ok \in BOOLEAN : ffmpeg_spawn(ok)
  \/ ffmpeg_wait
  \/ generate_proxy_file_size
  \/ generate_proxy_file_update

subprocess_step ==
  \/ \E size \in 0..MaxFileSize : ffmpeg_write(size)
  \/ ffmpeg_stderr
  \/ \E ok \in BOOLEAN : ffmpeg_exit(ok)

reader_step ==
  \/ \E i \in 1..Len(readers), line \in Lines : reader_line(i, line)
  \/ \E i \in 1..Len(readers) : reader_eof(i)

\* The reader, given the startup lines as well.
reader_step_startup ==
  \/ \E i \in 1..Len(readers), line \in Lines \cup StartupLines :
       reader_line(i, line)
  \/ \E i \in 1..Len(readers) : reader_eof(i)

request_step(c, videos, priorities) ==
  \/ \E v \in videos, s \in SettingsSet, p \in priorities :
       request_proxy_lookup(c, v, s, p)
  \/ request_proxy_push(c)
  \/ request_proxy_insert(c)

\* One caller thread using the whole interface, the worker, the subprocess,
\* the readers, the clock and the cache directory.
Next ==
  \/ request_step("c1", OneVideo, OnePriority)
  \/ \E v \in OneVideo, s \in SettingsSet : get_proxy_path_ready("c1", v, s)
  \/ get_proxy_path_exists("c1")
  \/ \E a \in MaxAges, remove_ok \in BOOLEAN : cleanup_old_proxies("c1", a, remove_ok)
  \/ tick
  \/ \E path \in DOMAIN files : external_delete(path)
  \/ worker_step
  \/ subprocess_step
  \/ reader_step

Spec == Init /\ [][Next]_vars

\* The same, with the history of request_proxy calls kept.
InitTrack ==
  /\ generation_queue = <<>>
  /\ proxy_registry = EmptyMap
  /\ worker_running = TRUE
  /\ files = EmptyMap
  /\ now = 0
  /\ cpc = [c \in Callers |-> "idle"]
  /\ creq = [c \in Callers |-> <<>>]
  /\ cret = [c \in Callers |-> NoReturn]
  /\ wpc = "loop"
  /\ wreq = <<>>
  /\ wpath = NoPath
  /\ wresult = FALSE
  /\ wsize = 0
  /\ ffmpeg = "none"
  /\ readers = <<>>
  /\ track = TRUE
  /\ enqueued = [id \in ProxyIds |-> 0]
  /\ failed = {}
  /\ streak = [c \in Callers |-> NoStreak]
  /\ cache = EmptyMap
  /\ cache_now = 0
  /\ cache_calls = <<>>
  /\ owner = [l \in Locks |-> "none"]
  /\ lstep = [t \in LockThreads |-> <<>>]

SpecIdem == InitTrack /\ [][Next]_vars

\* One caller requesting proxies of two videos at two priorities, and the
\* worker with its subprocess and readers: no cleanup, no clock.
NextQueue ==
  \/ request_step("c1", Videos, Priorities)
  \/ worker_step
  \/ subprocess_step
  \/ reader_step

SpecQueue == Init /\ [][NextQueue]_vars

\* Two caller threads requesting the same proxy, and the worker: no cleanup.
NextConc ==
  \/ request_step("c1", OneVideo, OnePriority)
  \/ request_step("c2", OneVideo, OnePriority)
  \/ worker_step
  \/ subprocess_step
  \/ reader_step

SpecConc == InitTrack /\ [][NextConc]_vars

\* The subprocess exits successfully, once it has written a non-empty output
\* file when it was given an output path.
ffmpeg_exit_success ==
  /\ wpath # NoPath => (wpath \in DOMAIN files /\ files[wpath] > 0)
  /\ ffmpeg_exit(TRUE)

\* The worker with the tool available and every spawn succeeding.
worker_step_live ==
  \/ worker_check_running
  \/ worker_pop
  \/ generate_proxy_file_probe(TRUE)
  \/ generate_proxy_file_resolve
  \/ generate_proxy_file_start
  \/ ffmpeg_spawn(TRUE)
  \/ ffmpeg_wait
  \/ generate_proxy_file_size
  \/ generate_proxy_file_update

subprocess_step_live ==
  \/ \E size \in 1..MaxFileSize : ffmpeg_write(size)
  \/ ffmpeg_stderr
  \/ ffmpeg_exit_success

\* One caller, no cleanup, no shutdown, no failing tool; every thread that can
\* take a step eventually takes one.
NextLive ==
  \/ request_step("c1", Videos, OnePriority)
  \/ worker_step_live
  \/ subprocess_step_live
  \/ reader_step

SpecLive ==
  /\ Init
  /\ [][NextLive]_vars
  /\ WF_vars(request_proxy_push("c1"))
  /\ WF_vars(request_proxy_insert("c1"))
  /\ WF_vars(worker_step_live)
  /\ WF_vars(\E size \in 1..MaxFileSize : ffmpeg_write(size))
  /\ WF_vars(ffmpeg_exit_success)
  /\ WF_vars(reader_step)

\* One caller requesting the proxy of each of two videos once and sweeping the
\* registry over two hours, with remove_file succeeding or failing, and the
\* worker with its subprocess; the history of the caller is kept.
NextCleanup ==
  \/ \E v \in Videos, s \in SettingsSet, p \in OnePriority :
       /\ enqueued[generate_proxy_id(v, s)] = 0
       /\ request_proxy_lookup("c1", v, s, p)
  \/ request_proxy_push("c1")
  \/ request_proxy_insert("c1")
  \/ \E a \in MaxAges, remove_ok \in BOOLEAN : cleanup_old_proxies("c1", a, remove_ok)
  \/ tick_until(MaxSweepTime)
  \/ worker_step_live
  \/ \E size \in 1..MaxFileSize : ffmpeg_write(size)
  \/ \E ok \in BOOLEAN : ffmpeg_exit(ok)
  \/ \E i \in 1..Len(readers) : reader_eof(i)

SpecCleanup == InitTrack /\ [][NextCleanup]_vars

\* The thread that owns the FrameCache: a new cache, filled up or not, and
\* then calls of get_frame, add_frame and clear_cache in any order.
NextCache ==
  \/ warm_up
  \/ \E video_path \in CachePaths, time \in CacheTimes : get_frame(video_path, time)
  \/ \E video_path \in CachePaths, time \in StoreTimes, frame \in Frames :
       add_frame_call(video_path, time, frame)
  \/ clear_cache

SpecCache == Init /\ [][NextCache]_vars

\* One caller requesting proxies of two videos and then dropping the
\* ProxyGenerator, and the worker with its subprocess and readers.
NextDrop ==
  \/ request_step("c1", Videos, OnePriority)
  \/ drop_signal("c1")
  \/ drop_join("c1")
  \/ worker_step
  \/ subprocess_step
  \/ reader_step

SpecDrop == Init /\ [][NextDrop]_vars

\* The same, where the worker thread and the thread in drop take a step when
\* they can and a running subprocess exits.
SpecDropLive ==
  /\ Init
  /\ [][NextDrop]_vars
  /\ WF_vars(worker_step)
  /\ WF_vars(\E ok \in BOOLEAN : ffmpeg_exit(ok))
  /\ WF_vars(drop_join("c1"))

\* One caller requesting proxies of two videos, and the worker probing for a
\* tool that may be missing and, where it is there, always spawning it.
worker_step_probe ==
  \/ worker_check_running
  \/ worker_pop
  \/ \E available \in BOOLEAN : generate_proxy_file_probe(available)
  \/ generate_proxy_file_resolve
  \/ generate_proxy_file_start
  \/ ffmpeg_spawn(TRUE)
  \/ ffmpeg_wait
  \/ generate_proxy_file_size
  \/ generate_proxy_file_update

NextProbe ==
  \/ request_step("c1", Videos, OnePriority)
  \/ worker_step_probe
  \/ subprocess_step
  \/ reader_step

SpecProbe == Init /\ [][NextProbe]_vars

\* One caller requesting the proxy of one video at either quality tier, and
\* the worker with its subprocess and readers; the history of the caller is kept.
NextQuality ==
  \/ \E v \in OneVideo, s \in QualitySettings, p \in OnePriority :
       request_proxy_lookup("c1", v, s, p)
  \/ request_proxy_push("c1")
  \/ request_proxy_insert("c1")
  \/ worker_step
  \/ subprocess_step
  \/ reader_step

SpecQuality == InitTrack /\ [][NextQuality]_vars

\* One caller requesting one proxy, the worker with the tool available, and
\* the subprocess writing startup lines as well as progress lines.
NextReader ==
  \/ request_step("c1", OneVideo, OnePriority)
  \/ worker_step_live
  \/ subprocess_step
  \/ reader_step_startup

SpecReader == Init /\ [][NextReader]_vars

\* One caller requesting the proxy of one video at either frame rate, and the
\* worker with its subprocess and readers.
NextRate ==
  \/ \E v \in OneVideo, s \in RateSettings, p \in OnePriority :
       request_proxy_lookup("c1", v, s, p)
  \/ request_proxy_push("c1")
  \/ request_proxy_insert("c1")
  \/ worker_step
  \/ subprocess_step
  \/ reader_step

SpecRate == Init /\ [][NextRate]_vars

\* ------------------------------------------------------------------- locks
\* The Mutex calls of each function, in program order. Every guard of the
\* code is bound by an `if let Ok(g) = m.lock() { .. }` and dropped where that
\* expression ends: one lock call and one unlock per critical section.
critical(l) == << <<"lock", l>>, <<"unlock", l>> >>

\* request_proxy_locks with the registry guard of the lookup kept to the end
\* of the push.
request_proxy_locks_nested(hit) ==
  IF hit THEN critical("proxy_registry")
  ELSE << <<"lock", "proxy_registry">> >> \o critical("generation_queue")
         \o << <<"unlock", "proxy_registry">> >> \o critical("proxy_registry")

\* request_proxy: the lookup; then, unless it returned, the push and the insert.
request_proxy_locks(hit) ==
  IF hit THEN critical("proxy_registry")
  ELSE critical("proxy_registry") \o critical("generation_queue")
         \o critical("proxy_registry")

\* get_proxy_info, and with it is_proxy_ready and get_proxy_path.
get_proxy_info_locks == critical("proxy_registry")

cleanup_old_proxies_locks == critical("proxy_registry")

get_cache_stats_locks == critical("proxy_registry")

\* Drop: the stop flag; join() takes no lock.
drop_locks == critical("worker_running")

\* transcode_locks with the guard of the progress update kept until the
\* subprocess has been waited for.
transcode_locks_held(spawned) ==
  << <<"lock", "proxy_registry">>, <<"spawn", "ffmpeg">> >>
    \o (IF spawned THEN << <<"wait", "ffmpeg">> >> ELSE <<>>)
    \o << <<"unlock", "proxy_registry">> >>
    \o critical("proxy_registry")

\* generate_proxy_file from "update progress to indicate we're starting" on:
\* that registry section, cmd.spawn(), process.wait() when the spawn
\* succeeded, and the registry section of the status update.
transcode_locks(spawned) ==
  critical("proxy_registry")
    \o << <<"spawn", "ffmpeg">> >>
    \o (IF spawned THEN << <<"wait", "ffmpeg">> >> ELSE <<>>)
    \o critical("proxy_registry")

\* One turn of the worker loop: the stop flag; then, when it is set, the pop;
\* then, for a job and a tool that is available, the registry read of the
\* proxy path and the rest of generate_proxy_file.
worker_locks(is_running, job, available, spawned) ==
  critical("worker_running")
    \o (IF is_running THEN critical("generation_queue") ELSE <<>>)
    \o (IF is_running /\ job /\ available
        THEN critical("proxy_registry") \o transcode_locks(spawned)
        ELSE <<>>)

\* The progress reader, for one line that carries a time.
reader_locks == critical("proxy_registry")

\* The functions a thread may call next.
programs_of(t) ==
  IF t = "worker"
  THEN { worker_locks(r, j, a, s) :
           r \in BOOLEAN, j \in BOOLEAN, a \in BOOLEAN, s \in BOOLEAN }
  ELSE IF t = "reader" THEN { reader_locks }
  ELSE { request_proxy_locks(hit) : hit \in BOOLEAN }
         \cup { get_proxy_info_locks, cleanup_old_proxies_locks,
                get_cache_stats_locks, drop_locks }

\* A thread enters a function.
lock_begin(t, program) ==
  /\ lstep[t] = <<>>
  /\ lstep' = [lstep EXCEPT ![t] = program]
  /\ UNCHANGED << owner, proxy_vars, cache_vars >>

\* Mutex::lock: blocks while another guard of the mutex is alive.
lock_acquire(t) ==
  /\ lstep[t] # <<>>
  /\ Head(lstep[t])[1] = "lock"
  /\ owner[Head(lstep[t])[2]] = "none"
  /\ owner' = [owner EXCEPT ![Head(lstep[t])[2]] = t]
  /\ lstep' = [lstep EXCEPT ![t] = Tail(@)]
  /\ UNCHANGED << proxy_vars, cache_vars >>

\* The guard is dropped.
lock_release(t) ==
  /\ lstep[t] # <<>>
  /\ Head(lstep[t])[1] = "unlock"
  /\ owner' = [owner EXCEPT ![Head(lstep[t])[2]] = "none"]
  /\ lstep' = [lstep EXCEPT ![t] = Tail(@)]
  /\ UNCHANGED << proxy_vars, cache_vars >>

\* cmd.spawn() or process.wait(): a call that takes no lock and may take long.
subprocess_call(t) ==
  /\ lstep[t] # <<>>
  /\ Head(lstep[t])[1] \in {"spawn", "wait"}
  /\ lstep' = [lstep EXCEPT ![t] = Tail(@)]
  /\ UNCHANGED << owner, proxy_vars, cache_vars >>

\* Two callers, the worker and a progress reader, at the level of their lock
\* and unlock calls.
NextLocks ==
  \/ \E t \in LockThreads : \E program \in programs_of(t) : lock_begin(t, program)
  \/ \E t \in LockThreads : lock_acquire(t)
  \/ \E t \in LockThreads : lock_release(t)
  \/ \E t \in LockThreads : subprocess_call(t)

SpecLocks == Init /\ [][NextLocks]_vars

\* ------------------------------------------------------------------ claims
\* The number of queue entries for an id.
Count(q, id) == Cardinality({ i \in 1..Len(q) : request_id(q[i]) = id })

ready_record(id) == id \in DOMAIN proxy_registry /\ proxy_registry[id].is_ready

being_written(path) == ffmpeg = "running" /\ wpath = path

\* A step of progress reader i: it takes a line from its pipe or returns.
reader_stepped(i) ==
  /\ i \in 1..Len(readers)
  /\ Len(readers') = Len(readers)
  /\ \/ readers'[i].buffered < readers[i].buffered
     \/ readers'[i].done /\ ~readers[i].done

\* C1: after two request_proxy calls in a row for one id from one caller, with
\* no cleanup_old_proxies between them, the registry holds the record of the
\* id and the queue holds at most one entry for it; the second call changes
\* neither the registry nor the queue.
IdempotentRequest ==
  /\ [](\A c \in Callers :
          streak[c].n = 2 =>
            /\ streak[c].id \in DOMAIN proxy_registry
            /\ Count(generation_queue, streak[c].id) <= 1)
  /\ [][\A c \in Callers :
          (streak[c].n = 1 /\ streak'[c].n = 2) =>
            /\ proxy_registry' = proxy_registry
            /\ generation_queue' = generation_queue]_vars

\* C2: with two threads calling request_proxy for one id, at most one job for
\* the id is ever pushed onto the queue.
ConcurrentDedup == \A id \in ProxyIds : enqueued[id] <= 1

\* C3: whenever the worker resolves the output path of a popped job, the
\* registry holds the record of the job's id.
RecordBeforeVisibility ==
  [][(wpc = "resolve" /\ wpc' = "start") =>
       request_id(wreq[1]) \in DOMAIN proxy_registry]_vars

\* C4: the job the worker pops has the highest priority of the jobs in the
\* queue at that moment.
HighestPriorityFirst ==
  [][(wpc = "pop" /\ wpc' = "probe") =>
       \A i \in 1..Len(generation_queue) :
         wreq'[1].priority >= generation_queue[i].priority]_vars

\* C5: with the tool available, every subprocess exiting successfully and no
\* cleanup or shutdown, every record that is in the registry and not ready is
\* eventually marked ready with progress 1.0.
EventualReadiness ==
  \A id \in ProxyIds :
    (id \in DOMAIN proxy_registry /\ ~proxy_registry[id].is_ready) ~>
      (ready_record(id) /\ proxy_registry[id].generation_progress = 100)

\* C6: the size the worker measures after the subprocess is the length of the
\* output file if the subprocess exited successfully and the file exists with
\* a length above zero, and 0 otherwise; the status update then sets the
\* record to ready, progress 1.0 and that size if the size is above zero and
\* to not ready, progress 0.0 and size 0 otherwise.
TerminalOutcome ==
  [][/\ (wpc = "size" /\ wpc' = "update") =>
          wsize' = IF ffmpeg = "success" /\ wpath \in DOMAIN files /\ files[wpath] > 0
                   THEN files[wpath] ELSE 0
     /\ (wpc = "update" /\ wpc' = "loop"
           /\ request_id(wreq[1]) \in DOMAIN proxy_registry) =>
          LET before == proxy_registry[request_id(wreq[1])]
              after == proxy_registry'[request_id(wreq[1])] IN
          after = IF wsize > 0
                  THEN [before EXCEPT !.is_ready = TRUE,
                                      !.generation_progress = 100,
                                      !.file_size = wsize]
                  ELSE [before EXCEPT !.is_ready = FALSE,
                                      !.generation_progress = 0,
                                      !.file_size = 0]]_vars

\* C6 witness: the worker has marked a record ready with the size of its file.
TerminalOutcomeWitness ==
  /\ wpc = "loop"
  /\ \E id \in DOMAIN proxy_registry :
       /\ proxy_registry[id].is_ready
       /\ proxy_registry[id].generation_progress = 100
       /\ proxy_registry[id].proxy_path \in DOMAIN files
       /\ proxy_registry[id].file_size = files[proxy_registry[id].proxy_path]

\* C7: a ready record has progress 1.0 and a size above zero, and once the
\* worker has written the terminal state of a job, no step of that job's
\* progress reader changes the registry.
TerminalStable ==
  /\ [](\A id \in DOMAIN proxy_registry :
          proxy_registry[id].is_ready =>
            /\ proxy_registry[id].generation_progress = 100
            /\ proxy_registry[id].file_size > 0)
  /\ [][\A i \in 1..Len(readers) :
          (readers[i].terminal /\ reader_stepped(i)) =>
            proxy_registry' = proxy_registry]_vars

\* C8: a step of a progress reader never changes is_ready and never leaves a
\* progress above 0.99 that it wrote; is_ready turns true only in the status
\* update of the worker for that id, after its subprocess exited successfully.
ReadinessOnlyByWorker ==
  [][\A id \in DOMAIN proxy_registry \cap DOMAIN proxy_registry' :
       /\ (~proxy_registry[id].is_ready /\ proxy_registry'[id].is_ready) =>
            /\ wpc = "update" /\ wpc' = "loop"
            /\ request_id(wreq[1]) = id
            /\ ffmpeg = "success"
       /\ (\E i \in 1..Len(readers) : reader_stepped(i)) =>
            /\ proxy_registry'[id].is_ready = proxy_registry[id].is_ready
            /\ proxy_registry'[id].file_size = proxy_registry[id].file_size
            /\ \/ proxy_registry'[id].generation_progress =
                    proxy_registry[id].generation_progress
               \/ proxy_registry'[id].generation_progress <= 99]_vars

\* C8 witness: a progress reader has written the capped progress 0.99.
ReadinessOnlyByWorkerWitness ==
  \E id \in DOMAIN proxy_registry :
    /\ proxy_registry[id].generation_progress = 99
    /\ ~proxy_registry[id].is_ready

\* C9: no record is ready while a subprocess is writing its output file, and
\* get_proxy_path returns no path that a subprocess is writing.
NoPartialReady ==
  /\ [](\A id \in DOMAIN proxy_registry :
          proxy_registry[id].is_ready =>
            ~being_written(proxy_registry[id].proxy_path))
  /\ [][\A c \in Callers :
          (cpc[c] = "exists" /\ cpc'[c] = "idle" /\ cret'[c].value # <<>>) =>
            ~being_written(cret'[c].value[1])]_vars

\* C10: get_proxy_path goes on to the file test exactly when the registry
\* holds the record with is_ready true, and returns None otherwise; after the
\* file test it returns the path exactly when the file exists; neither step
\* changes the registry or the files, so is_ready stays true when it answers
\* None for a file that was deleted.
GetProxyPathIff ==
  [][\A c \in Callers :
       /\ (cpc[c] = "idle" /\ cpc'[c] = "exists") =>
            /\ ready_record(request_id(creq'[c][1]))
            /\ proxy_registry' = proxy_registry /\ files' = files
       /\ (cpc[c] = "idle" /\ cpc'[c] = "idle" /\ cret'[c].returned
             /\ cret'[c] # cret[c]) =>
            /\ ~ready_record(cret'[c].id)
            /\ cret'[c].value = <<>>
            /\ proxy_registry' = proxy_registry /\ files' = files
       /\ (cpc[c] = "exists" /\ cpc'[c] = "idle") =>
            LET req == creq[c][1]
                path == generate_proxy_path(req.video_path, req.proxy_settings) IN
            /\ cret'[c].returned
            /\ cret'[c].value = IF path \in DOMAIN files THEN <<path>> ELSE <<>>
            /\ proxy_registry' = proxy_registry /\ files' = files]_vars

\* C10 witness: get_proxy_path has returned None for a record that is ready
\* and whose file is gone.
GetProxyPathWitness ==
  \E c \in Callers :
    /\ cret[c].returned
    /\ cret[c].value = <<>>
    /\ ready_record(cret[c].id)
    /\ proxy_registry[cret[c].id].proxy_path \notin DOMAIN files

\* C11: a request_proxy call that finds a record of its id in the registry, in
\* whatever state, changes neither the registry nor the queue; a call goes on
\* to push a job only when the registry holds no record of the id, and no
\* record is there when it pushes.
RequestExistingNoOp ==
  [][\A c \in Callers :
       /\ (cpc[c] = "idle" /\ streak'[c].n >= 1 /\ streak'[c] # streak[c]) =>
            /\ streak'[c].id \in DOMAIN proxy_registry
            /\ proxy_registry' = proxy_registry
            /\ generation_queue' = generation_queue
       /\ (cpc[c] = "idle" /\ cpc'[c] = "push") =>
            request_id(creq'[c][1]) \notin DOMAIN proxy_registry
       /\ (cpc[c] = "push" /\ cpc'[c] = "insert") =>
            request_id(creq[c][1]) \notin DOMAIN proxy_registry]_vars

\* C11 witness: request_proxy has returned early twice, the second time on a
\* record that was not ready and had no progress while no job for it was
\* queued or in flight and the worker had finished a job for it: a failed one.
RequestExistingNoOpWitness ==
  \E c \in Callers :
    /\ streak[c].n = 2
    /\ streak[c].found # <<>>
    /\ streak[c].found[1].jobs = 0
    /\ ~streak[c].found[1].info.is_ready
    /\ streak[c].found[1].info.generation_progress = 0
    /\ \E i \in 1..Len(readers) :
         readers[i].terminal /\ readers[i].proxy_id = streak[c].id

\* C12: cleanup_old_proxies removes from the registry exactly the records
\* created before now minus max_age and leaves every other record as it was,
\* whether or not remove_file succeeds; when remove_file succeeds no removed
\* record's file is left, and no file but those of removed records is touched.
CleanupExact ==
  [][\A c \in Callers :
       (streak'[c].swept # <<>> /\ streak'[c] # streak[c]) =>
         LET sweep == streak'[c].swept[1]
             old == { id \in DOMAIN proxy_registry :
                        proxy_registry[id].created_at < now - 2 * sweep.max_age_hours } IN
         /\ DOMAIN proxy_registry' = DOMAIN proxy_registry \ old
         /\ \A id \in DOMAIN proxy_registry' : proxy_registry'[id] = proxy_registry[id]
         /\ sweep.remove_ok =>
              \A id \in old : proxy_registry[id].proxy_path \notin DOMAIN files'
         /\ \A path \in DOMAIN files \ DOMAIN files' :
              \E id \in old : proxy_registry[id].proxy_path = path
         /\ \A path \in DOMAIN files' :
              path \in DOMAIN files /\ files'[path] = files[path]]_vars

\* C12 witness: a sweep with max_age one hour has just removed a record that
\* was two hours old, and its file, and has kept a record half an hour old.
CleanupExactWitness ==
  \E c \in Callers :
    /\ streak[c].swept # <<>>
    /\ streak[c].swept[1].max_age_hours = 1
    /\ streak[c].swept[1].at = now
    /\ [created_at |-> now - 4, had_file |-> TRUE] \in streak[c].swept[1].removed
    /\ \E id \in DOMAIN proxy_registry : proxy_registry[id].created_at = now - 1
    /\ \A id \in DOMAIN proxy_registry :
         proxy_registry[id].proxy_path \in DOMAIN files =>
           proxy_registry[id].created_at >= now - 2

\* The last FrameCache call of the step, when the step is one.
cache_called == Len(cache_calls') = Len(cache_calls) + 1

last_call == cache_calls'[Len(cache_calls')]

\* The keys add_frame writes for a source: the source, a colon, a time text.
keys_of(entries, video_path) ==
  { key \in DOMAIN entries :
      \E text \in TimeTexts : key = video_path \o <<":", text>> }

\* The time a key was written for, in hundredths.
stored_time(key) == ParseTable[key[Len(key)]]

\* A time rounded to the nearest tenth of a second, in tenths.
nearest_tenth(time) == IF time < 0 THEN 0 - round_tenths(time) ELSE round_tenths(time)

\* C13: the cache never holds more than max_cache_size entries between calls,
\* so never after an add_frame has returned.
CacheCapacityBound == Cardinality(DOMAIN cache) <= max_cache_size

\* C13 witness: add_frame has just returned after evicting from a full cache.
CacheCapacityBoundWitness ==
  /\ cache_calls # <<>>
  /\ cache_calls[Len(cache_calls)].op = "add_frame"
  /\ Cardinality(DOMAIN cache) = max_cache_size + 1 - (max_cache_size \div 5)

\* C14: add_frame sets the last access of its entry to the time of the call
\* and leaves that of the others; when the count then exceeds the capacity it
\* removes a fifth of the capacity, and no removed entry was accessed later
\* than an entry it keeps; otherwise it removes nothing. get_frame sets the
\* last access of the entry at its key when there is one, changes no other
\* and removes nothing.
EvictionOrder ==
  [][cache_called =>
       LET key == make_cache_key(last_call.video_path, last_call.time) IN
       /\ last_call.op = "add_frame" =>
            LET all == DOMAIN cache \cup {key}
                last(k) == IF k = key THEN cache_now' ELSE cache[k].last_accessed
                gone == all \ DOMAIN cache' IN
            /\ DOMAIN cache' \subseteq all
            /\ \A k \in DOMAIN cache' : cache'[k].last_accessed = last(k)
            /\ IF Cardinality(all) > max_cache_size
               THEN /\ Cardinality(gone) = max_cache_size \div 5
                    /\ \A g \in gone, k \in DOMAIN cache' : last(g) <= last(k)
               ELSE gone = {}
       /\ last_call.op = "get_frame" =>
            /\ DOMAIN cache' = DOMAIN cache
            /\ \A k \in DOMAIN cache :
                 cache'[k].last_accessed =
                   IF k = key THEN cache_now' ELSE cache[k].last_accessed]_vars

\* C14 witness: the oldest entry of a full cache was refreshed by get_frame,
\* and the add_frame that followed has evicted the next oldest and kept it.
EvictionOrderWitness ==
  /\ Len(cache_calls) = 2
  /\ cache_calls[1].op = "get_frame" /\ cache_calls[1].exact
  /\ cache_calls[2].op = "add_frame"
  /\ make_cache_key(<<"v">>, 0) \in DOMAIN cache
  /\ make_cache_key(<<"v">>, 10) \notin DOMAIN cache
  /\ Cardinality(DOMAIN cache) = max_cache_size + 1 - (max_cache_size \div 5)

\* C15: a get_frame that follows an add_frame for the same source and time
\* returns the frame that was added.
CacheRoundTrip ==
  \A i \in 1..(Len(cache_calls) - 1) :
    ( /\ cache_calls[i].op = "add_frame"
      /\ cache_calls[i + 1].op = "get_frame"
      /\ cache_calls[i + 1].video_path = cache_calls[i].video_path
      /\ cache_calls[i + 1].time = cache_calls[i].time ) =>
    cache_calls[i + 1].result = cache_calls[i].frame

\* C15 witness: a frame other than the blank one was added to a full cache,
\* which evicted, and the get_frame that followed returned it.
CacheRoundTripWitness ==
  /\ Len(cache_calls) = 2
  /\ cache_calls[1].op = "add_frame"
  /\ cache_calls[1].frame # <<WarmFrame>>
  /\ cache_calls[2].op = "get_frame"
  /\ cache_calls[2].video_path = cache_calls[1].video_path
  /\ cache_calls[2].time = cache_calls[1].time
  /\ cache_calls[2].result = cache_calls[1].frame
  /\ Cardinality(DOMAIN cache) = max_cache_size + 1 - (max_cache_size \div 5)

\* C16: a get_frame that follows an add_frame for the same source, at a time
\* that rounds to the same tenth of a second, finds the entry at its key and
\* returns the frame that was added; and when the cache holds one entry, of
\* the source asked for, a get_frame at 0.5 s or more from the entry's time
\* returns None.
QuantizationTolerance ==
  [][(cache_called /\ last_call.op = "get_frame") =>
       /\ ( /\ cache_calls # <<>>
            /\ cache_calls[Len(cache_calls)].op = "add_frame"
            /\ cache_calls[Len(cache_calls)].video_path = last_call.video_path
            /\ nearest_tenth(cache_calls[Len(cache_calls)].time)
                 = nearest_tenth(last_call.time) ) =>
            /\ last_call.exact
            /\ last_call.result = cache_calls[Len(cache_calls)].frame
       /\ \A key \in keys_of(cache, last_call.video_path) :
            ( /\ DOMAIN cache = {key}
              /\ Abs(stored_time(key) - last_call.time) >= nearby_limit ) =>
            last_call.result = <<>>]_vars

\* C17: when the cache holds entries of the source asked for and none at the
\* key of the time asked for, get_frame returns the frame of an entry of the
\* source at the least distance from that time if that distance is below
\* 0.5 s, and None otherwise.
NearestFallback ==
  [][(cache_called /\ last_call.op = "get_frame") =>
       LET own == keys_of(cache, last_call.video_path)
           distance(key) == Abs(stored_time(key) - last_call.time)
           least == SetMin({ distance(key) : key \in own }) IN
       ( /\ own # {}
         /\ make_cache_key(last_call.video_path, last_call.time) \notin DOMAIN cache ) =>
       IF least < nearby_limit
       THEN \E key \in own : /\ distance(key) = least
                              /\ last_call.result = << cache[key].frame >>
       ELSE last_call.result = <<>>]_vars

\* C18: get_frame returns no frame but that of an entry stored for the source
\* it was asked for.
NoCrossSource ==
  [][(cache_called /\ last_call.op = "get_frame" /\ last_call.result # <<>>) =>
       \E key \in keys_of(cache, last_call.video_path) :
         last_call.result = << cache[key].frame >>]_vars

\* C19: once the stop flag is cleared the worker takes no job off the queue,
\* and the worker exits only when it holds no job and no subprocess of its is
\* left: the job in flight has had its status update.
ShutdownLetsJobFinish ==
  [][/\ (~worker_running /\ wpc = "pop") => wpc' # "probe"
     /\ (wpc # "exited" /\ wpc' = "exited") =>
          (wreq = <<>> /\ ffmpeg = "none")]_vars

\* C20: once drop has cleared the stop flag, the worker exits and the join in
\* drop returns, whatever the worker was doing and whatever is in the queue,
\* given that a running subprocess exits.
ShutdownTerminates ==
  (~worker_running) ~> (wpc = "exited" /\ cpc["c1"] = "dropped")

\* C20 witness: drop has returned after the worker finished the job it had in
\* flight at the signal, and a job is left in the queue.
ShutdownTerminatesWitness ==
  /\ cpc["c1"] = "dropped"
  /\ wpc = "exited"
  /\ generation_queue # <<>>
  /\ \E i \in 1..Len(readers) : readers[i].terminal

\* C21 (SpecLocks): no thread ever holds the guards of proxy_registry and
\* generation_queue at once: a thread holds at most one guard, and a thread that
\* holds one is never about to lock another, so that every guard is released
\* without waiting for a lock.
held_by(t) == { l \in Locks : owner[l] = t }

NoNestedLocks ==
  \A t \in LockThreads :
    /\ ~(owner["proxy_registry"] = t /\ owner["generation_queue"] = t)
    /\ Cardinality(held_by(t)) <= 1
    /\ held_by(t) # {} => Head(lstep[t])[1] = "unlock"

\* Both locks are held at once, by different threads: a caller holds the
\* queue for the push of request_proxy, having released the registry, while
\* the worker holds the registry in generate_proxy_file.
NoNestedLocksWitness ==
  /\ owner["generation_queue"] = "c1"
  /\ lstep["c1"] = << <<"unlock", "generation_queue">> >> \o critical("proxy_registry")
  /\ owner["proxy_registry"] = "worker"

\* C22 (SpecQueue): at most one transcode subprocess runs at any time. A
\* subprocess runs only while the worker is blocked in wait() on it; at most
\* one stderr pipe has its write end open; and whenever the worker is between
\* jobs or preparing one, no subprocess exists and every earlier job that had
\* one has received its terminal update.
open_pipes == { i \in 1..Len(readers) : ~readers[i].eof }

OneSubprocess ==
  /\ ffmpeg = "running" => wpc = "wait"
  /\ Cardinality(open_pipes) <= 1
  /\ wpc \in {"loop", "pop", "probe", "resolve", "start", "spawn", "exited"} =>
       /\ ffmpeg = "none"
       /\ \A i \in 1..Len(readers) : readers[i].eof /\ readers[i].terminal

\* The subprocess of a second job is running, after the first job's subprocess
\* has exited and its terminal update was written; the first job's reader
\* thread is still alive.
OneSubprocessWitness ==
  /\ Len(readers) = 2
  /\ ffmpeg = "running"
  /\ readers[1].eof /\ readers[1].terminal /\ ~readers[1].done
  /\ readers[2].proxy_id # readers[1].proxy_id

same_but_quality(s1, s2) ==
  /\ s1.resolution = s2.resolution
  /\ as_u32(s1.frame_rate) = as_u32(s2.frame_rate)

QualityNotIdentity ==
  [][ /\ \A v \in OneVideo, s1 \in QualitySettings, s2 \in QualitySettings :
           generate_proxy_id(v, s1) = generate_proxy_id(v, s2)
      /\ LET h == streak'["c1"] IN
           (streak'["c1"] # streak["c1"] /\ h.found # <<>>
              /\ h.found[1].settings.quality # h.found[1].info.settings.quality) =>
             /\ generation_queue' = generation_queue
             /\ proxy_registry' = proxy_registry
             /\ cpc'["c1"] = "idle"
             /\ proxy_registry'[h.id].settings = h.found[1].info.settings
      /\ (cpc["c1"] = "idle" /\ cpc'["c1"] = "push") =>
           \A id \in DOMAIN proxy_registry :
             ~(/\ proxy_registry[id].original_path = creq'["c1"][1].video_path
               /\ same_but_quality(proxy_registry[id].settings,
                                   creq'["c1"][1].proxy_settings))
      /\ \A id \in DOMAIN proxy_registry :
           /\ id \in DOMAIN proxy_registry'
           /\ proxy_registry'[id].settings = proxy_registry[id].settings
    ]_vars

\* A request at quality High has just found the record that a request at
\* quality Preview created; the record still says Preview and the id has been
\* queued once.
QualityNotIdentityWitness ==
  LET h == streak["c1"] IN
  /\ h.found # <<>>
  /\ h.found[1].settings.quality = "High"
  /\ h.found[1].info.settings.quality = "Preview"
  /\ proxy_registry[h.id].settings.quality = "Preview"
  /\ enqueued[h.id] = 1

\* C25 (Spec): with a single caller thread, the queue never holds two entries
\* with the same fingerprint, and no fingerprint is being transcoded while
\* another entry for it is still queued.
AtMostOneJobPerId ==
  \A id \in ProxyIds :
    /\ Count(generation_queue, id) <= 1
    /\ (wreq # <<>> /\ request_id(wreq[1]) = id) => Count(generation_queue, id) = 0

\* C26 (SpecQueue): while a job is in flight (its subprocess was spawned and
\* its terminal update is not yet written), no step lowers the
\* generation_progress of its record.
ProgressMonotonic ==
  [][ \A i \in 1..Len(readers) :
        (/\ Len(readers') = Len(readers)
         /\ ~readers[i].terminal /\ ~readers'[i].terminal
         /\ readers[i].proxy_id \in DOMAIN proxy_registry
         /\ readers[i].proxy_id \in DOMAIN proxy_registry') =>
          proxy_registry'[readers[i].proxy_id].generation_progress
            >= proxy_registry[readers[i].proxy_id].generation_progress
    ]_vars

\* C27 (SpecReader): a reader that takes a line whose time marker carries a
\* value that does not parse as a time ("time=N/A") leaves the registry and
\* its own duration as they were and does not return.
UnparseableIgnored ==
  [][ \A i \in 1..Len(readers) : \A line \in StartupLines :
        (Len(line.text) # 3 /\ reader_line(i, line)) =>
          /\ proxy_registry' = proxy_registry
          /\ readers'[i].duration_secs = readers[i].duration_secs
          /\ ~readers'[i].done
    ]_vars

\* C28 (SpecReader): the generation_progress of every record lies between 0
\* and 1 (in hundredths, between 0 and 100).
ProgressInRange ==
  \A id \in DOMAIN proxy_registry :
    /\ proxy_registry[id].generation_progress >= 0
    /\ proxy_registry[id].generation_progress <= 100

\* C29 (SpecIdem): the worker never adds to the queue (the queue grows only by
\* the push of a request_proxy call), and it never pops a job for a record that
\* has already been given the failed status update.
NoRetry ==
  [][ /\ Len(generation_queue') > Len(generation_queue) =>
           \E c \in Callers : cpc[c] = "push" /\ cpc'[c] = "insert"
      /\ (wpc = "pop" /\ wpc' = "probe") => request_id(wreq'[1]) \notin failed
    ]_vars

\* C30 (SpecQueue): among queued jobs of equal priority the worker pops the
\* one that was requested first (the sort is stable, so among equal priorities
\* the queue is in request order).
EqualPriorityFifo ==
  [][ (wpc = "pop" /\ wpc' = "probe") =>
        LET same == { i \in 1..Len(generation_queue) :
                        generation_queue[i].priority = wreq'[1].priority }
        IN generation_queue[SetMin(same)] = wreq'[1]
    ]_vars

\* C31 (SpecQueue): in every reachable state the queue is ordered by
\* descending priority from head to tail; the push of request_proxy sorts
\* inside its critical section and the pop of the worker removes the tail, so
\* that both leave it ordered.
sorted_desc(q) ==
  \A i \in 1..Len(q) : \A j \in i..Len(q) : q[i].priority >= q[j].priority

QueueOrdered ==
  [][ /\ sorted_desc(generation_queue) /\ sorted_desc(generation_queue')
      /\ (wpc = "pop" /\ wpc' = "probe") =>
           generation_queue' = SubSeq(generation_queue, 1, Len(generation_queue) - 1)
    ]_vars

\* The request of priority 2 was pushed after that of priority 1 (its caller
\* is between the push and the insert): the sort has moved it to the head.
QueueOrderedWitness ==
  /\ cpc["c1"] = "insert"
  /\ creq["c1"][1].priority = 2
  /\ Len(generation_queue) = 2
  /\ generation_queue[1] = creq["c1"][1]
  /\ generation_queue[2].priority = 1

\* C32 (SpecLocks): while the worker is about to spawn the transcode
\* subprocess or is waiting for it, it holds no guard at all, and no thread
\* that is about to lock a mutex finds it held by the worker: a mutex a caller
\* needs is free or held by a thread whose next call releases it.
at_subprocess(t) ==
  lstep[t] # <<>> /\ Head(lstep[t])[1] \in {"spawn", "wait"}

NoLockAcrossSubprocess ==
  at_subprocess("worker") =>
    /\ held_by("worker") = {}
    /\ \A t \in LockThreads :
         (lstep[t] # <<>> /\ Head(lstep[t])[1] = "lock") =>
           LET holder == owner[Head(lstep[t])[2]] IN
             \/ holder = "none"
             \/ holder # "worker" /\ Head(lstep[holder])[1] = "unlock"

\* While the worker waits for the subprocess, one caller holds the registry
\* for the insert of request_proxy and the other holds the queue for a push.
NoLockAcrossSubprocessWitness ==
  /\ lstep["worker"] # <<>>
  /\ Head(lstep["worker"]) = <<"wait", "ffmpeg">>
  /\ owner["proxy_registry"] = "c1"
  /\ lstep["c1"] = << <<"unlock", "proxy_registry">> >>
  /\ owner["generation_queue"] = "c2"

\* C33 (SpecQueue): a step of a progress reader leaves the queue, the files
\* and the set of registered ids as they were, and changes no record other
\* than the one with the fingerprint of its own job, of which it changes at
\* most the field generation_progress.
ReaderOwnership ==
  [][ \A i \in 1..Len(readers) :
        reader_stepped(i) =>
          /\ generation_queue' = generation_queue
          /\ files' = files
          /\ worker_running' = worker_running
          /\ DOMAIN proxy_registry' = DOMAIN proxy_registry
          /\ \A id \in DOMAIN proxy_registry :
               \/ proxy_registry'[id] = proxy_registry[id]
               \/ /\ id = readers[i].proxy_id
                  /\ proxy_registry'[id] =
                       [proxy_registry[id] EXCEPT !.generation_progress =
                          proxy_registry'[id].generation_progress]
    ]_vars

\* A reader has written the progress of its record, up to the cap, while the
\* record of the other video is registered as well.
ReaderOwnershipWitness ==
  /\ Len(readers) = 1
  /\ ~readers[1].terminal
  /\ readers[1].proxy_id \in DOMAIN proxy_registry
  /\ proxy_registry[readers[1].proxy_id].generation_progress = 99
  /\ ~proxy_registry[readers[1].proxy_id].is_ready
  /\ Cardinality(DOMAIN proxy_registry) = 2

\* C34 (SpecCache): a get_frame that does not find its own key, whether the
\* fallback answers it or it returns None, leaves the cache as it was, every
\* last_accessed included, and with it the entries an eviction would remove.
FallbackNoRefresh ==
  [][ (cache_called /\ last_call.op = "get_frame" /\ ~last_call.exact) =>
        cache' = cache
    ]_vars

\* A get_frame was answered by the fallback from a full cache, and the
\* add_frame that followed evicted.
FallbackNoRefreshWitness ==
  /\ Len(cache_calls) = 2
  /\ cache_calls[1].op = "get_frame"
  /\ ~cache_calls[1].exact
  /\ cache_calls[1].result # <<>>
  /\ cache_calls[2].op = "add_frame"
  /\ Cardinality(DOMAIN cache) = max_cache_size + 1 - (max_cache_size \div 5)

\* C35 (SpecCache): an add_frame on a key that is in the cache replaces the
\* frame of the entry and sets its last_accessed to the current instant,
\* leaves every other entry and the number of entries as they were and evicts
\* nothing; the get_frame for the same source and time that follows returns
\* the new frame.
PutOverwrites ==
  [][ /\ (cache_called /\ last_call.op = "add_frame"
            /\ make_cache_key(last_call.video_path, last_call.time) \in DOMAIN cache) =>
           LET key == make_cache_key(last_call.video_path, last_call.time) IN
           /\ DOMAIN cache' = DOMAIN cache
           /\ cache'[key] = CachedFrame(last_call.frame[1], cache_now')
           /\ cache'[key].last_accessed > cache[key].last_accessed
           /\ \A other \in DOMAIN cache \ {key} : cache'[other] = cache[other]
      /\ (cache_called /\ last_call.op = "get_frame" /\ cache_calls # <<>>
            /\ cache_calls[Len(cache_calls)].op = "add_frame"
            /\ cache_calls[Len(cache_calls)].video_path = last_call.video_path
            /\ cache_calls[Len(cache_calls)].time = last_call.time) =>
           last_call.result = cache_calls[Len(cache_calls)].frame
    ]_vars

\* In a full cache the entry "v:0.0" that held the blank frame was overwritten
\* with another frame, nothing was evicted, and the get_frame that followed
\* returned the new frame.
PutOverwritesWitness ==
  /\ Len(cache_calls) = 2
  /\ cache_calls[1].op = "add_frame"
  /\ cache_calls[1].video_path = <<"v">>
  /\ cache_calls[1].time = 4
  /\ cache_calls[1].frame # <<WarmFrame>>
  /\ cache_calls[2].op = "get_frame"
  /\ cache_calls[2].video_path = <<"v">>
  /\ cache_calls[2].time = 4
  /\ cache_calls[2].result = cache_calls[1].frame
  /\ Cardinality(DOMAIN cache) = max_cache_size

\* C36 (SpecRate): requests for one source and resolution whose frame rates
\* round to the same integer have the same fingerprint and are deduplicated:
\* the registry never holds two records of one source and resolution whose
\* frame rates round to the same integer, and the queue never holds two such
\* jobs.
round_u32(frame_rate) == (frame_rate + 50) \div 100

same_rounded(s1, s2) ==
  /\ s1.resolution = s2.resolution
  /\ round_u32(s1.frame_rate) = round_u32(s2.frame_rate)

RoundedRateDedup ==
  /\ \A id1 \in DOMAIN proxy_registry, id2 \in DOMAIN proxy_registry :
       (/\ proxy_registry[id1].original_path = proxy_registry[id2].original_path
        /\ same_rounded(proxy_registry[id1].settings, proxy_registry[id2].settings)) =>
         id1 = id2
  /\ \A i \in 1..Len(generation_queue), j \in 1..Len(generation_queue) :
       (/\ generation_queue[i].video_path = generation_queue[j].video_path
        /\ same_rounded(generation_queue[i].proxy_settings,
                        generation_queue[j].proxy_settings)) =>
         i = j

\* C37 (Spec): every proxy file on disk is the output path of a record in the
\* registry.
NoOrphanedOutput ==
  \A path \in DOMAIN files :
    \E id \in DOMAIN proxy_registry : proxy_registry[id].proxy_path = path

\* C38 (SpecQueue): for every record, is_ready holds exactly when file_size is
\* positive; so the total size get_cache_stats reports is the sum of the sizes
\* of the ready records, and its count of ready records is at most its count
\* of records.
ReadyIffSized ==
  /\ \A id \in DOMAIN proxy_registry :
       proxy_registry[id].is_ready <=> proxy_registry[id].file_size > 0
  /\ get_cache_stats(proxy_registry)[3] =
       sum_file_size(proxy_registry,
                     { id \in DOMAIN proxy_registry : proxy_registry[id].is_ready })
  /\ get_cache_stats(proxy_registry)[2] <= get_cache_stats(proxy_registry)[1]

\* One record ready with its size, after its job succeeded, and one that is
\* not ready after its job ended with a subprocess that wrote a file and
\* failed: get_cache_stats reports two records, one ready, one byte.
ReadyIffSizedWitness ==
  /\ get_cache_stats(proxy_registry) = <<2, 1, 1>>
  /\ Len(readers) = 2
  /\ \A i \in 1..2 : readers[i].terminal
  /\ Cardinality(DOMAIN files) = 2
  /\ \A path \in DOMAIN files : files[path] > 0
  /\ wpc = "loop"

\* C39 (SpecCache): when the cache holds the single entry that
\* add_frame(s, t1, F) stored, get_frame(s, t2) returns F whenever t1 and t2
\* are less than 0.45 s apart and None whenever they are 0.55 s or more apart.
FallbackWindow ==
  [][ (/\ cache_called /\ last_call.op = "get_frame"
       /\ Len(cache_calls) = 1
       /\ cache_calls[1].op = "add_frame"
       /\ cache_calls[1].video_path = last_call.video_path
       /\ Cardinality(DOMAIN cache) = 1) =>
        LET apart == Abs(cache_calls[1].time - last_call.time) IN
        /\ apart < 45 => last_call.result = cache_calls[1].frame
        /\ apart >= 55 => last_call.result = <<>>
    ]_vars

\* C40 (SpecCache): an add_frame of a new key into a cache of max_cache_size
\* entries removes exactly max_cache_size / 5 = 20 of the entries that were
\* there and leaves 81, the new entry among them with its frame; the
\* get_frame of the same source and time that follows returns that frame.
EvictionSize ==
  [][ /\ (/\ cache_called /\ last_call.op = "add_frame"
          /\ Cardinality(DOMAIN cache) = max_cache_size
          /\ make_cache_key(last_call.video_path, last_call.time) \notin DOMAIN cache) =>
           LET key == make_cache_key(last_call.video_path, last_call.time) IN
           /\ Cardinality(DOMAIN cache \ DOMAIN cache') = 20
           /\ Cardinality(DOMAIN cache') = 81
           /\ DOMAIN cache' \ DOMAIN cache = {key}
           /\ cache'[key] = CachedFrame(last_call.frame[1], cache_now')
           /\ \A other \in DOMAIN cache' \ {key} : cache'[other] = cache[other]
      /\ (/\ cache_called /\ last_call.op = "get_frame" /\ cache_calls # <<>>
          /\ cache_calls[Len(cache_calls)].op = "add_frame"
          /\ cache_calls[Len(cache_calls)].video_path = last_call.video_path
          /\ cache_calls[Len(cache_calls)].time = last_call.time
          /\ Cardinality(DOMAIN cache) = 81) =>
           /\ last_call.exact
           /\ last_call.result = cache_calls[Len(cache_calls)].frame
    ]_vars

\* A frame was added to the full cache under a new key, 20 entries went and
\* 81 stayed, and the get_frame that followed found the new entry.
EvictionSizeWitness ==
  /\ Len(cache_calls) = 2
  /\ cache_calls[1].op = "add_frame"
  /\ cache_calls[1].video_path = <<"v", "2">>
  /\ cache_calls[2].op = "get_frame"
  /\ cache_calls[2].video_path = <<"v", "2">>
  /\ cache_calls[2].time = cache_calls[1].time
  /\ cache_calls[2].exact
  /\ cache_calls[2].result = cache_calls[1].frame
  /\ Cardinality(DOMAIN cache) = 81
  /\ Cardinality({ key \in DOMAIN warm_cache : key \notin DOMAIN cache }) = 20

====
